---- MODULE Spec2Model ----
(***************************************************************************)
(* Model of the Monthly Review plugin (src/main.ts): onload with the       *)
(* stored settings, the find-or-create resolution of the monthly note      *)
(* (getOrCreateMonthlyNote), the two user commands (addLinkInMonthlyNote,  *)
(* openMonthyNote), the text computation done by the callback of           *)
(* vault.read in addLinkInMonthlyNote, and the settings tab.               *)
(*                                                                         *)
(* A text is a sequence of one-character strings, so that concatenation,   *)
(* String.prototype.includes and String.prototype.replace are computed on  *)
(* characters as the JavaScript code computes them.                        *)
(***************************************************************************)
EXTENDS Integers, Sequences, FiniteSets, TLC

\* ------------------------------------------------------------------ bounds
\* Number of pieces an initial note text is built from (AppendSpec).
MaxPieces == 3

\* ------------------------------------------------------------- characters
NL == "\n"
\* The grave accent, U+0060. A string of the module takes a grave accent
\* only with an apostrophe after it, so the character is cut out of one.
Backtick == SubSeq("`'", 1, 1)

\* The characters of a string, as a text.
chars(str) == [i \in 1..Len(str) |-> SubSeq(str, i, i)]

\* DEFAULT_SETTINGS.reviewSectionHeading: "## Links"
DefaultHeading == <<"#", "#", " ", "L", "i", "n", "k", "s">>
\* DEFAULT_SETTINGS.linePrefix: "- "
DefaultPrefix == <<"-", " ">>
\* The value the settings tab stores for an empty heading input: "## Review"
ReviewHeading == <<"#", "#", " ", "R", "e", "v", "i", "e", "w">>

DEFAULT_SETTINGS ==
    [dailyNotesFolder |-> <<>>,
     reviewSectionHeading |-> DefaultHeading,
     linePrefix |-> DefaultPrefix]

\* ------------------------------------------------- JavaScript string methods
\* String.prototype.includes: t occurs in s as a contiguous substring.
includes(s, t) ==
    \E i \in 0..(Len(s) - Len(t)) : SubSeq(s, i + 1, i + Len(t)) = t

\* String.prototype.indexOf: 0-based position of the first occurrence, or -1.
indexOf(s, t) ==
    IF includes(s, t)
    THEN CHOOSE i \in 0..(Len(s) - Len(t)) :
            /\ SubSeq(s, i + 1, i + Len(t)) = t
            /\ \A j \in 0..(i - 1) : SubSeq(s, j + 1, j + Len(t)) # t
    ELSE -1

\* GetSubstitution of ECMAScript for a string pattern (no capture groups):
\* in the replacement template, $$ is "$", $& is the matched text, $ with a
\* grave accent is the text before the match and $ with an apostrophe is the
\* text after it; a "$" before a digit, before "<" or before any other
\* character is literal.
RECURSIVE GetSubstitution(_, _, _, _)
GetSubstitution(matched, str, position, template) ==
    IF template = <<>> THEN <<>>
    ELSE IF Head(template) # "$" \/ Len(template) = 1
    THEN <<Head(template)>> \o GetSubstitution(matched, str, position, Tail(template))
    ELSE LET c == template[2]
             rest == SubSeq(template, 3, Len(template))
         IN  CASE c = "$" -> <<"$">> \o GetSubstitution(matched, str, position, rest)
               [] c = "&" -> matched \o GetSubstitution(matched, str, position, rest)
               [] c = Backtick -> SubSeq(str, 1, position)
                                \o GetSubstitution(matched, str, position, rest)
               [] c = "'" -> SubSeq(str, position + Len(matched) + 1, Len(str))
                                \o GetSubstitution(matched, str, position, rest)
               [] OTHER -> <<"$">> \o GetSubstitution(matched, str, position, Tail(template))

\* String.prototype.replace(pattern: string, replacement: string): the first
\* occurrence of pattern is replaced by the substitution of the template.
replace(s, pattern, replacement) ==
    LET pos == indexOf(s, pattern)
    IN  IF pos = -1 THEN s
        ELSE SubSeq(s, 1, pos)
                \o GetSubstitution(pattern, s, pos, replacement)
                \o SubSeq(s, pos + Len(pattern) + 1, Len(s))

\* ------------------------------------------- the callback of vault.read
\* let link = reviewLinePrefix + "[[" + noteLink + "]]";
link(reviewLinePrefix, noteLink) ==
    reviewLinePrefix \o <<"[", "[">> \o noteLink \o <<"]", "]">>

\* previousNoteText.includes(reviewHeading)
hasHeading(previousNoteText, reviewHeading) ==
    includes(previousNoteText, reviewHeading)

\* The lines of a text: the pieces between its newlines.
RECURSIVE lines(_)
lines(s) ==
    IF ~includes(s, <<NL>>) THEN {s}
    ELSE {SubSeq(s, 1, indexOf(s, <<NL>>))}
            \cup lines(SubSeq(s, indexOf(s, <<NL>>) + 2, Len(s)))

\* A duplicate check that looks for the link as a whole line.
hasLink_WholeLine(previousNoteText, linkLine) ==
    linkLine \in lines(previousNoteText)

\* previousNoteText.includes(link)
hasLink(previousNoteText, linkLine) ==
    includes(previousNoteText, linkLine)

\* Whether the callback calls vault.modify for this text.
modifies(previousNoteText, reviewHeading, reviewLinePrefix, noteLink) ==
    IF hasHeading(previousNoteText, reviewHeading)
    THEN ~hasLink(previousNoteText, link(reviewLinePrefix, noteLink))
    ELSE TRUE

\* The text the heading-present branch computes.
insertUnderHeading(previousNoteText, reviewHeading, reviewLinePrefix, noteLink) ==
    replace(previousNoteText, reviewHeading,
            reviewHeading \o <<NL>> \o link(reviewLinePrefix, noteLink))

\* A heading-absent branch that adds no newline after a text that ends a line.
appendSection_OneNewline(previousNoteText, reviewHeading, reviewLinePrefix, noteLink) ==
    (IF previousNoteText = <<>> \/ previousNoteText[Len(previousNoteText)] = NL
     THEN previousNoteText ELSE previousNoteText \o <<NL>>)
        \o reviewHeading \o <<NL>>
        \o reviewLinePrefix \o <<"[", "[">> \o noteLink \o <<"]", "]">>

\* The text the heading-absent branch computes.
appendSection(previousNoteText, reviewHeading, reviewLinePrefix, noteLink) ==
    previousNoteText \o <<NL>> \o reviewHeading \o <<NL>>
        \o reviewLinePrefix \o <<"[", "[">> \o noteLink \o <<"]", "]">>

\* newNoteText as the callback leaves it: "" when the link is already there.
newNoteText(previousNoteText, reviewHeading, reviewLinePrefix, noteLink) ==
    IF hasHeading(previousNoteText, reviewHeading)
    THEN IF ~hasLink(previousNoteText, link(reviewLinePrefix, noteLink))
         THEN insertUnderHeading(previousNoteText, reviewHeading,
                                 reviewLinePrefix, noteLink)
         ELSE <<>>
    ELSE appendSection(previousNoteText, reviewHeading, reviewLinePrefix, noteLink)

\* The note's text once the callback's write (if any) is applied.
computeAppend(currentText, heading, linePrefix, linkText) ==
    IF modifies(currentText, heading, linePrefix, linkText)
    THEN newNoteText(currentText, heading, linePrefix, linkText)
    ELSE currentText

\* ------------------------------------------------------------------ state
Months == <<"2024-03", "2024-04">>
Leaves == {"A", "B"}
NoLeaf == "null"
NoNote == "null"

VARIABLES
    settings,       \* Review.settings
    saved,          \* the plugin's stored data: what loadData gives
    periodicNotes,  \* app.plugins.getPlugin('periodic-notes') is present
    layoutReady,    \* app.workspace.layoutReady
    startupNotices, \* the Notices onLayoutReady has shown
    activeLeaf,     \* app.workspace.activeLeaf: the note it shows, or NoLeaf
    now,            \* index in Months of the month window.moment() is in
    notes,          \* the months that have a monthly note in the vault
    content,        \* the text of each monthly note
    inv,            \* the invocations of the two commands, by slot
    calls,          \* per invocation, the calls made to the host so far
    notices,        \* per invocation, the Notices shown so far
    returnValue,    \* what the last checkCallback returned
    started         \* number of invocations that ran their action

layoutVars == <<layoutReady, startupNotices>>
hostVars == <<settings, saved, periodicNotes, layoutVars, activeLeaf, now,
              notes, content>>
procVars == <<inv, calls, notices, returnValue, started>>
vars == <<hostVars, procVars>>

\* ---------------------------------------------------------------- bounds
\* Command invocations that run their action (checking = false), at most.
MaxInvocations == 2
\* The slots of the invocations in flight: two may overlap.
Proc == {1, 2}

\* ------------------------------------------------------------ the inputs
\* The text of a monthly note the vault holds at start, and of a new one.
InitialContents == {DefaultHeading \o <<NL, "a">>}
NewNoteText == <<>>

\* The stored data onload finds: none (loadData gives null), or a data
\* file with an empty heading.
NoData == [k \in {} |-> <<>>]
StoredData == {NoData, [reviewSectionHeading |-> <<>>]}

\* What the heading and prefix fields of the settings tab are set to.
HeadingInputs == {<<>>, DefaultHeading}
PrefixInputs == {<<>>, DefaultPrefix}

\* Headings, prefixes and names of source notes for the text computation,
\* some with the "$" patterns String.prototype.replace interprets in its
\* replacement.
Headings == {DefaultHeading, ReviewHeading, <<"#", "$", "$">>}
Prefixes == {DefaultPrefix, <<>>}
LinkNames == {"A", "$&", "$$", "$'", SubSeq("$`'", 1, 2)}

\* The pieces an initial text is made of: a letter, a newline, the heading
\* and the link line themselves.
Pieces(h, p, l) == {<<"a">>, <<NL>>, h, link(p, l)}

RECURSIVE Flatten(_)
Flatten(ps) == IF ps = <<>> THEN <<>> ELSE Head(ps) \o Flatten(Tail(ps))

InitialTexts(h, p, l) ==
    {Flatten(ps) : ps \in UNION {[1..n -> Pieces(h, p, l)] : n \in 0..MaxPieces}}

\* --------------------------------------------------------------- onload
\* An invocation: where it is (pc), its local variables, and what happened
\* to it: whether the plugin was there when it started (capability), how
\* the lookup of the month's note went, how the creation went, and the month
\* given to getMonthlyNote (lookupPeriod) and to createMonthlyNote
\* (createPeriod).
Idle ==
    [pc |-> "idle", command |-> "none", date |-> 0, note |-> NoNote,
     reviewHeading |-> <<>>, reviewLinePrefix |-> <<>>, noteLink |-> <<>>,
     previousNoteText |-> <<>>, newNoteText |-> <<>>,
     capability |-> TRUE, lookup |-> "none", creation |-> "none",
     lookupPeriod |-> 0, createPeriod |-> 0]

\* fileToLinktext(noteFile, noteFile.path, true) of the note the active
\* leaf shows (getDisplayText()): the characters of its name.
fileToLinktext(leaf) == chars(leaf)

\* Object.assign({}, target, source): the fields of source win.
assign(target, source) ==
    [k \in DOMAIN target \cup DOMAIN source |->
        IF k \in DOMAIN source THEN source[k] ELSE target[k]]

\* The Notice of onLayoutReady (lines 102-109), shown when the Periodic
\* Notes plugin is not there.
onLayoutReady == IF periodicNotes THEN <<>> ELSE <<"startup-plugin">>

\* onload with the stored data (lines 56-100): the settings are the
\* defaults overlaid with the stored data; onLayoutReady runs at once when the
\* layout is ready; no command has run.
onload(data) ==
    /\ saved = data
    /\ settings = assign(DEFAULT_SETTINGS, data)
    /\ periodicNotes \in BOOLEAN
    /\ layoutReady \in BOOLEAN
    /\ startupNotices = IF layoutReady THEN onLayoutReady ELSE <<>>
    /\ inv = [p \in Proc |-> Idle]
    /\ calls = [p \in Proc |-> <<>>]
    /\ notices = [p \in Proc |-> <<>>]
    /\ returnValue = FALSE
    /\ started = 0

\* The plugin is loaded, with any stored data, into a vault that has the
\* note of the month or not. A workspace whose layout is not ready has no
\* leaf.
Init ==
    /\ \E data \in StoredData : onload(data)
    /\ activeLeaf \in IF layoutReady THEN Leaves \cup {NoLeaf} ELSE {NoLeaf}
    /\ now = 1
    /\ notes \in {{}, {1}}
    /\ \E t \in InitialContents :
          content = [m \in 1..Len(Months) |-> IF m \in notes THEN t ELSE <<>>]

\* The plugin is loaded for the first time: there is no stored data.
SettingsInit ==
    /\ onload(NoData)
    /\ layoutReady
    /\ activeLeaf \in Leaves \cup {NoLeaf}
    /\ now = 1
    /\ notes \in {{}, {1}}
    /\ \E t \in InitialContents :
          content = [m \in 1..Len(Months) |-> IF m \in notes THEN t ELSE <<>>]

\* The plugin is loaded with a stored heading and prefix, the active leaf
\* shows the source note, and the note of the month is there with any text.
AppendInit ==
    /\ \E h \in Headings, x \in Prefixes :
          onload([reviewSectionHeading |-> h, linePrefix |-> x])
    /\ periodicNotes
    /\ layoutReady
    /\ activeLeaf \in LinkNames
    /\ now = 1
    /\ notes = {1}
    /\ \E t \in InitialTexts(settings.reviewSectionHeading, settings.linePrefix,
                             fileToLinktext(activeLeaf)) :
          content = [m \in 1..Len(Months) |-> IF m \in notes THEN t ELSE <<>>]

\* JavaScript runs a continuation that awaits an already settled value (a
\* microtask) before the next event: a command, a settings change, the
\* completion of a host operation.
Microtask(p) == inv[p].pc \in {"gotNote", "returned"}
NoMicrotask == \A p \in Proc : ~Microtask(p)

\* A resolver whose catch shows the Notice and goes on to the lookup.
getOrCreateMonthlyNote_NoReturn(p, cmd, done) ==
    \E allNotesFound \in BOOLEAN :
        /\ inv' = [inv EXCEPT ![p] = [Idle EXCEPT !.pc = "gotNote",
                      !.command = cmd, !.date = now,
                      !.note = IF allNotesFound /\ now \in notes
                               THEN Months[now] ELSE NoNote,
                      !.capability = periodicNotes,
                      !.lookup = IF ~allNotesFound THEN "threw"
                                 ELSE IF now \in notes THEN "found" ELSE "absent",
                      !.lookupPeriod = now]]
        /\ calls' = [calls EXCEPT ![p] =
                      done \o <<"getAllMonthlyNotes", "getMonthlyNote">>]
        /\ notices' = [notices EXCEPT ![p] =
                      IF allNotesFound THEN <<>> ELSE <<"folder">>]

\* getOrCreateMonthlyNote up to its first await (lines 21-31): the month is
\* taken from the clock; getAllMonthlyNotes either throws or gives the
\* collection, in which getMonthlyNote finds the month's note or nothing.
getOrCreateMonthlyNote(p, cmd, done) ==
    \E allNotesFound \in BOOLEAN :
        IF ~allNotesFound
        THEN /\ inv' = [inv EXCEPT ![p] = [Idle EXCEPT !.pc = "returned",
                            !.command = cmd, !.date = now, !.note = NoNote,
                            !.capability = periodicNotes, !.lookup = "threw"]]
             /\ calls' = [calls EXCEPT ![p] = done \o <<"getAllMonthlyNotes">>]
             /\ notices' = [notices EXCEPT ![p] = <<"folder">>]
        ELSE /\ inv' = [inv EXCEPT ![p] = [Idle EXCEPT !.pc = "gotNote",
                            !.command = cmd, !.date = now,
                            !.note = IF now \in notes THEN Months[now] ELSE NoNote,
                            !.capability = periodicNotes,
                            !.lookup = IF now \in notes THEN "found" ELSE "absent",
                            !.lookupPeriod = now]]
             /\ calls' = [calls EXCEPT ![p] =
                            done \o <<"getAllMonthlyNotes", "getMonthlyNote">>]
             /\ notices' = [notices EXCEPT ![p] = <<>>]

\* The slot the next invocation runs in: the first one never used, or else
\* the first one whose invocation is over.
NextSlot(p) ==
    /\ started < MaxInvocations
    /\ IF \E q \in Proc : inv[q].pc = "idle"
       THEN inv[p].pc = "idle" /\ \A q \in Proc : q < p => inv[q].pc # "idle"
       ELSE inv[p].pc = "done" /\ \A q \in Proc : q < p => inv[q].pc # "done"

\* A checkCallback that runs the action whatever its parameter is.
AddCheckCallback_IgnoreChecking(checking) ==
    /\ NoMicrotask
    /\ UNCHANGED hostVars
    /\ returnValue' = (activeLeaf # NoLeaf)
    /\ IF activeLeaf # NoLeaf
       THEN /\ started' = started + 1
            /\ \E p \in Proc :
                 /\ NextSlot(p)
                 /\ IF ~periodicNotes
                    THEN /\ inv' = [inv EXCEPT ![p] =
                                       [Idle EXCEPT !.pc = "done", !.command = "add",
                                                    !.capability = FALSE]]
                         /\ calls' = [calls EXCEPT ![p] = <<"getPlugin">>]
                         /\ notices' = [notices EXCEPT ![p] = <<"plugin">>]
                    ELSE getOrCreateMonthlyNote(p, "add", <<"getPlugin">>)
       ELSE UNCHANGED <<started, inv, calls, notices>>

\* checkCallback of the command 'add-to-monthy-note' (lines 71-80), with the
\* part of addLinkInMonthlyNote that runs before its first await.
AddCheckCallback(checking) ==
    /\ NoMicrotask
    /\ UNCHANGED hostVars
    /\ returnValue' = (activeLeaf # NoLeaf)
    /\ IF activeLeaf # NoLeaf /\ ~checking
       THEN /\ started' = started + 1
            /\ \E p \in Proc :
                 /\ NextSlot(p)
                 /\ IF ~periodicNotes
                    THEN /\ inv' = [inv EXCEPT ![p] =
                                       [Idle EXCEPT !.pc = "done", !.command = "add",
                                                    !.capability = FALSE]]
                         /\ calls' = [calls EXCEPT ![p] = <<"getPlugin">>]
                         /\ notices' = [notices EXCEPT ![p] = <<"plugin">>]
                    ELSE getOrCreateMonthlyNote(p, "add", <<"getPlugin">>)
       ELSE UNCHANGED <<started, inv, calls, notices>>

\* checkCallback of the command 'open-monthly-note' (lines 86-95), with the
\* part of openMonthyNote that runs before its first await.
OpenCheckCallback(checking) ==
    /\ NoMicrotask
    /\ UNCHANGED hostVars
    /\ returnValue' = (activeLeaf # NoLeaf)
    /\ IF activeLeaf # NoLeaf /\ ~checking
       THEN /\ started' = started + 1
            /\ \E p \in Proc :
                 /\ NextSlot(p)
                 /\ getOrCreateMonthlyNote(p, "open", <<>>)
       ELSE UNCHANGED <<started, inv, calls, notices>>

\* The month a note handle is the monthly note of.
monthOf(note) == CHOOSE m \in 1..Len(Months) : Months[m] = note

\* A resolver that creates the month's note whether or not it found one.
AfterGetMonthlyNote_AlwaysCreate(p) ==
    /\ inv[p].pc = "gotNote"
    /\ inv' = [inv EXCEPT ![p] = [@ EXCEPT !.pc = "creating",
                                          !.creation = "pending",
                                          !.createPeriod = inv[p].date]]
    /\ calls' = [calls EXCEPT ![p] = @ \o <<"createMonthlyNote">>]
    /\ UNCHANGED <<hostVars, notices, returnValue, started>>

\* A resolver that takes the month from the clock again for the creation.
AfterGetMonthlyNote_Recompute(p) ==
    /\ inv[p].pc = "gotNote"
    /\ IF inv[p].note = NoNote
       THEN /\ inv' = [inv EXCEPT ![p] = [@ EXCEPT !.pc = "creating",
                                               !.creation = "pending",
                                               !.createPeriod = now]]
            /\ calls' = [calls EXCEPT ![p] = @ \o <<"createMonthlyNote">>]
       ELSE /\ inv' = [inv EXCEPT ![p] = [@ EXCEPT !.pc = "returned"]]
            /\ UNCHANGED calls
    /\ UNCHANGED <<hostVars, notices, returnValue, started>>

\* getOrCreateMonthlyNote after the await of getMonthlyNote (lines 32-42): an
\* absent note is created for the month computed at the start.
AfterGetMonthlyNote(p) ==
    /\ inv[p].pc = "gotNote"
    /\ IF inv[p].note = NoNote
       THEN /\ inv' = [inv EXCEPT ![p] = [@ EXCEPT !.pc = "creating",
                                               !.creation = "pending",
                                               !.createPeriod = inv[p].date]]
            /\ calls' = [calls EXCEPT ![p] = @ \o <<"createMonthlyNote">>]
       ELSE /\ inv' = [inv EXCEPT ![p] = [@ EXCEPT !.pc = "returned"]]
            /\ UNCHANGED calls
    /\ UNCHANGED <<hostVars, notices, returnValue, started>>

\* A resolver that, when the creation throws, shows the Notice and tries again.
CreateMonthlyNoteSettles_Retry(p) ==
    /\ NoMicrotask
    /\ inv[p].pc = "creating"
    /\ \E created \in BOOLEAN :
          IF created
          THEN /\ inv[p].createPeriod \notin notes
               /\ notes' = notes \cup {inv[p].createPeriod}
               /\ content' = [content EXCEPT ![inv[p].createPeriod] = NewNoteText]
               /\ inv' = [inv EXCEPT ![p] = [@ EXCEPT !.pc = "returned",
                                                  !.note = Months[inv[p].createPeriod],
                                                  !.creation = "created"]]
               /\ UNCHANGED notices
          ELSE /\ inv' = [inv EXCEPT ![p] = [@ EXCEPT !.pc = "gotNote",
                                                  !.note = NoNote,
                                                  !.creation = "threw"]]
               /\ notices' = [notices EXCEPT ![p] = <<"create">>]
               /\ UNCHANGED <<notes, content>>
    /\ UNCHANGED <<layoutVars, settings, saved, periodicNotes, activeLeaf, now,
                   calls, returnValue, started>>

\* A creation that writes the new note's text over a note that is there.
CreateMonthlyNoteSettles_Overwrite(p) ==
    /\ NoMicrotask
    /\ inv[p].pc = "creating"
    /\ \E created \in BOOLEAN :
          IF created
          THEN /\ notes' = notes \cup {inv[p].createPeriod}
               /\ content' = [content EXCEPT ![inv[p].createPeriod] = NewNoteText]
               /\ inv' = [inv EXCEPT ![p] = [@ EXCEPT !.pc = "returned",
                                                  !.note = Months[inv[p].createPeriod],
                                                  !.creation = "created"]]
               /\ UNCHANGED notices
          ELSE /\ inv' = [inv EXCEPT ![p] = [@ EXCEPT !.pc = "returned",
                                                  !.note = NoNote,
                                                  !.creation = "threw"]]
               /\ notices' = [notices EXCEPT ![p] = @ \o <<"create">>]
               /\ UNCHANGED <<notes, content>>
    /\ UNCHANGED <<layoutVars, settings, saved, periodicNotes, activeLeaf, now,
                   calls, returnValue, started>>

\* createMonthlyNote settles (lines 34-39): the host has created the note,
\* or it throws, which getOrCreateMonthlyNote answers with a Notice and null.
CreateMonthlyNoteSettles(p) ==
    /\ NoMicrotask
    /\ inv[p].pc = "creating"
    /\ \E created \in BOOLEAN :
          IF created
          THEN /\ inv[p].createPeriod \notin notes
               /\ notes' = notes \cup {inv[p].createPeriod}
               /\ content' = [content EXCEPT ![inv[p].createPeriod] = NewNoteText]
               /\ inv' = [inv EXCEPT ![p] = [@ EXCEPT !.pc = "returned",
                                                  !.note = Months[inv[p].createPeriod],
                                                  !.creation = "created"]]
               /\ UNCHANGED notices
          ELSE /\ inv' = [inv EXCEPT ![p] = [@ EXCEPT !.pc = "returned",
                                                  !.note = NoNote,
                                                  !.creation = "threw"]]
               /\ notices' = [notices EXCEPT ![p] = @ \o <<"create">>]
               /\ UNCHANGED <<notes, content>>
    /\ UNCHANGED <<layoutVars, settings, saved, periodicNotes, activeLeaf, now,
                   calls, returnValue, started>>

\* addLinkInMonthlyNote after the await of getOrCreateMonthlyNote (lines
\* 126-142): without a note it returns; else it takes the heading and the
\* prefix from the settings, the link from the active leaf (a TypeError when
\* there is none any more) and calls vault.read.
AddLinkAfterResolve(p) ==
    /\ inv[p].pc = "returned"
    /\ inv[p].command = "add"
    /\ IF inv[p].note = NoNote \/ activeLeaf = NoLeaf
       THEN /\ inv' = [inv EXCEPT ![p] = [@ EXCEPT !.pc = "done"]]
            /\ UNCHANGED calls
       ELSE /\ inv' = [inv EXCEPT ![p] = [@ EXCEPT !.pc = "reading",
                            !.reviewHeading = settings.reviewSectionHeading,
                            !.reviewLinePrefix = settings.linePrefix,
                            !.noteLink = fileToLinktext(activeLeaf)]]
            /\ calls' = [calls EXCEPT ![p] = @ \o <<"read">>]
    /\ UNCHANGED <<hostVars, notices, returnValue, started>>

\* openMonthyNote after the await of getOrCreateMonthlyNote (lines 47-53).
OpenAfterResolve(p) ==
    /\ inv[p].pc = "returned"
    /\ inv[p].command = "open"
    /\ IF inv[p].note = NoNote
       THEN /\ inv' = [inv EXCEPT ![p] = [@ EXCEPT !.pc = "done"]]
            /\ UNCHANGED calls
       ELSE /\ inv' = [inv EXCEPT ![p] = [@ EXCEPT !.pc = "opening"]]
            /\ calls' = [calls EXCEPT ![p] = @ \o <<"openFile">>]
    /\ UNCHANGED <<hostVars, notices, returnValue, started>>

\* leaf.openFile(note, { active: true }) settles (lines 51-53): the leaf
\* that shows the note is the active leaf.
OpenFileSettles(p) ==
    /\ NoMicrotask
    /\ inv[p].pc = "opening"
    /\ inv' = [inv EXCEPT ![p] = [@ EXCEPT !.pc = "done"]]
    /\ activeLeaf' = inv[p].note
    /\ UNCHANGED <<settings, saved, periodicNotes, layoutVars, now, notes,
                   content, calls, notices, returnValue, started>>

\* A callback that writes in the heading-absent branch and once more after it.
ReadCallback_WriteTwice(p) ==
    /\ NoMicrotask
    /\ inv[p].pc = "reading"
    /\ LET result == content[monthOf(inv[p].note)]
           h == inv[p].reviewHeading
           x == inv[p].reviewLinePrefix
           l == inv[p].noteLink
       IN  /\ inv' = [inv EXCEPT ![p] = [@ EXCEPT
                        !.pc = IF modifies(result, h, x, l) THEN "writing" ELSE "done",
                        !.previousNoteText = result,
                        !.newNoteText = newNoteText(result, h, x, l)]]
           /\ calls' = [calls EXCEPT ![p] =
                        IF ~hasHeading(result, h) THEN @ \o <<"modify", "modify">>
                        ELSE IF modifies(result, h, x, l) THEN @ \o <<"modify">>
                        ELSE @]
    /\ notices' = [notices EXCEPT ![p] = @ \o <<"added">>]
    /\ UNCHANGED <<hostVars, returnValue, started>>

\* A callback that shows the Notice only where it calls vault.modify.
ReadCallback_NoticeOnWrite(p) ==
    /\ NoMicrotask
    /\ inv[p].pc = "reading"
    /\ LET result == content[monthOf(inv[p].note)]
           h == inv[p].reviewHeading
           x == inv[p].reviewLinePrefix
           l == inv[p].noteLink
       IN  /\ inv' = [inv EXCEPT ![p] = [@ EXCEPT
                        !.pc = IF modifies(result, h, x, l) THEN "writing" ELSE "done",
                        !.previousNoteText = result,
                        !.newNoteText = newNoteText(result, h, x, l)]]
           /\ calls' = [calls EXCEPT ![p] =
                        IF modifies(result, h, x, l) THEN @ \o <<"modify">> ELSE @]
           /\ notices' = [notices EXCEPT ![p] =
                        IF modifies(result, h, x, l) THEN @ \o <<"added">> ELSE @]
    /\ UNCHANGED <<hostVars, returnValue, started>>

\* vault.read settles and its callback runs (lines 142-157): the text read
\* is the note's text now; vault.modify is called, not awaited.
ReadCallback(p) ==
    /\ NoMicrotask
    /\ inv[p].pc = "reading"
    /\ LET result == content[monthOf(inv[p].note)]
           h == inv[p].reviewHeading
           x == inv[p].reviewLinePrefix
           l == inv[p].noteLink
       IN  /\ inv' = [inv EXCEPT ![p] = [@ EXCEPT
                        !.pc = IF modifies(result, h, x, l) THEN "writing" ELSE "done",
                        !.previousNoteText = result,
                        !.newNoteText = newNoteText(result, h, x, l)]]
           /\ calls' = [calls EXCEPT ![p] =
                        IF modifies(result, h, x, l) THEN @ \o <<"modify">> ELSE @]
    /\ notices' = [notices EXCEPT ![p] = @ \o <<"added">>]
    /\ UNCHANGED <<hostVars, returnValue, started>>

\* A write that applies the computation to the note's text as it is when the
\* write settles, keeping what was written since the read.
ModifySettles_Merge(p) ==
    /\ NoMicrotask
    /\ inv[p].pc = "writing"
    /\ content' = [content EXCEPT ![monthOf(inv[p].note)] =
                      computeAppend(@, inv[p].reviewHeading,
                                    inv[p].reviewLinePrefix, inv[p].noteLink)]
    /\ inv' = [inv EXCEPT ![p] = [@ EXCEPT !.pc = "done"]]
    /\ UNCHANGED <<layoutVars, settings, saved, periodicNotes, activeLeaf, now,
                   notes, calls, notices, returnValue, started>>

\* vault.modify settles: the note's text is the text the callback computed.
ModifySettles(p) ==
    /\ NoMicrotask
    /\ inv[p].pc = "writing"
    /\ content' = [content EXCEPT ![monthOf(inv[p].note)] = inv[p].newNoteText]
    /\ inv' = [inv EXCEPT ![p] = [@ EXCEPT !.pc = "done"]]
    /\ UNCHANGED <<layoutVars, settings, saved, periodicNotes, activeLeaf, now,
                   notes, calls, notices, returnValue, started>>

\* ------------------------------------------------------------- the host
\* The user makes another note, or none, the active leaf.
SwitchLeaf(leaf) ==
    /\ NoMicrotask
    /\ layoutReady
    /\ leaf # activeLeaf
    /\ activeLeaf' = leaf
    /\ UNCHANGED <<layoutVars, settings, saved, periodicNotes, now, notes,
                   content, procVars>>

\* The workspace's layout is ready: the event 'layout-ready' calls
\* onLayoutReady (lines 61-65, 102-109).
LayoutReady ==
    /\ NoMicrotask
    /\ ~layoutReady
    /\ layoutReady' = TRUE
    /\ startupNotices' = startupNotices \o onLayoutReady
    /\ UNCHANGED <<settings, saved, periodicNotes, activeLeaf, now, notes,
                   content, procVars>>

\* The clock passes into the next month.
Tick ==
    /\ now < Len(Months)
    /\ now' = now + 1
    /\ UNCHANGED <<layoutVars, settings, saved, periodicNotes, activeLeaf,
                   notes, content, procVars>>

\* The user enables or disables the Periodic Notes plugin.
SetPeriodicNotes(enabled) ==
    /\ NoMicrotask
    /\ enabled # periodicNotes
    /\ periodicNotes' = enabled
    /\ UNCHANGED <<layoutVars, settings, saved, activeLeaf, now, notes,
                   content, procVars>>

\* An onChange that stores the value of the field as it is.
HeadingOnChange_NoDefault(value) ==
    /\ NoMicrotask
    /\ settings' = [settings EXCEPT !.reviewSectionHeading = value]
    /\ saved' = settings'
    /\ UNCHANGED <<periodicNotes, layoutVars, activeLeaf, now, notes, content,
                   procVars>>

\* onChange of the 'Review section heading' field (lines 179-186).
HeadingOnChange(value) ==
    /\ NoMicrotask
    /\ settings' = [settings EXCEPT !.reviewSectionHeading =
                        IF value = <<>> THEN ReviewHeading ELSE value]
    /\ saved' = settings'
    /\ UNCHANGED <<periodicNotes, layoutVars, activeLeaf, now, notes, content,
                   procVars>>

\* onChange of the 'Line prefix' field (lines 195-198).
PrefixOnChange(value) ==
    /\ NoMicrotask
    /\ settings' = [settings EXCEPT !.linePrefix = value]
    /\ saved' = settings'
    /\ UNCHANGED <<periodicNotes, layoutVars, activeLeaf, now, notes, content,
                   procVars>>

Next ==
    \/ \E checking \in BOOLEAN : AddCheckCallback(checking)
    \/ \E checking \in BOOLEAN : OpenCheckCallback(checking)
    \/ \E p \in Proc : AfterGetMonthlyNote(p)
    \/ \E p \in Proc : CreateMonthlyNoteSettles(p)
    \/ \E p \in Proc : AddLinkAfterResolve(p)
    \/ \E p \in Proc : OpenAfterResolve(p)
    \/ \E p \in Proc : OpenFileSettles(p)
    \/ \E p \in Proc : ReadCallback(p)
    \/ \E p \in Proc : ModifySettles(p)
    \/ \E leaf \in Leaves \cup {NoLeaf} : SwitchLeaf(leaf)
    \/ LayoutReady
    \/ Tick
    \/ \E enabled \in BOOLEAN : SetPeriodicNotes(enabled)

Spec == Init /\ [][Next]_vars

\* The settings tab: the two fields are changed.
SettingsNext ==
    \/ \E value \in HeadingInputs : HeadingOnChange(value)
    \/ \E value \in PrefixInputs : PrefixOnChange(value)

\* The command 'add-to-monthy-note' and the steps of its invocations on a
\* note that is there.
AppendNext ==
    \/ \E checking \in BOOLEAN : AddCheckCallback(checking)
    \/ \E p \in Proc : AfterGetMonthlyNote(p)
    \/ \E p \in Proc : AddLinkAfterResolve(p)
    \/ \E p \in Proc : ReadCallback(p)
    \/ \E p \in Proc : ModifySettles(p)

\* The same, with the creation of a note that is not there.
AddLinkNext ==
    \/ AppendNext
    \/ \E p \in Proc : CreateMonthlyNoteSettles(p)

\* Links are added to the note of the month, by invocations that may
\* overlap, with headings, prefixes and note names that hold "$".
AppendSpec == AppendInit /\ [][AppendNext]_vars

\* From the default settings, the settings are changed in the tab while
\* links are added with them.
SettingsSpec == SettingsInit /\ [][SettingsNext \/ AddLinkNext]_vars

\* --------------------------------------------------- claims on the commands
\* How often the invocation in slot p has made the call c to the host.
count(p, c) == Cardinality({i \in 1..Len(calls[p]) : calls[p][i] = c})

\* The invocation in slot p is past getOrCreateMonthlyNote.
Resolved(p) == inv[p].pc \in {"returned", "reading", "writing", "opening", "done"}

\* The calls that touch a note's text or open it.
NoteCalls == {"read", "modify", "openFile"}
touched(p) == {calls[p][i] : i \in 1..Len(calls[p])} \cap NoteCalls

\* The place of the first call c in the calls of the invocation in slot p.
first(p, c) == CHOOSE i \in 1..Len(calls[p]) :
                    calls[p][i] = c /\ \A j \in 1..(i - 1) : calls[p][j] # c

\* The read of the invocation in slot p has settled.
ReadCompleted(p) ==
    count(p, "read") = 1 /\ inv[p].pc \in {"writing", "done"}

\* The text the invocation in slot p computes from the text it has read.
computedFromOwnRead(p) ==
    computeAppend(inv[p].previousNoteText, inv[p].reviewHeading,
                  inv[p].reviewLinePrefix, inv[p].noteLink)

\* The link line of the invocation in slot p.
linkLine(p) == link(inv[p].reviewLinePrefix, inv[p].noteLink)

\* The 0-based positions at which t occurs in s.
occurrences(s, t) ==
    {i \in 0..(Len(s) - Len(t)) : SubSeq(s, i + 1, i + Len(t)) = t}

\* The occurrences of the link line l after the first heading h of s.
underHeading(s, h, l) ==
    IF ~includes(s, h) THEN {}
    ELSE {i \in occurrences(s, l) : i >= indexOf(s, h) + Len(h)}

\* The text s with l put on a line of its own after the first occurrence of
\* h, everything else as it was.
withLineAfterFirst(s, h, l) ==
    SubSeq(s, 1, indexOf(s, h)) \o h \o <<NL>> \o l
        \o SubSeq(s, indexOf(s, h) + Len(h) + 1, Len(s))

\* ------------------------------------------------ claims on the computation
\* C1: when every add-link operation for the same source and target is
\* over and at least one went as far as its read, from any initial text,
\* the link line occurs exactly once under the section heading of the
\* note's text.
C1_LinkOnceUnderHeading ==
    \A p \in Proc :
        (/\ \A q \in Proc : inv[q].pc \in {"idle", "done"}
         /\ ReadCompleted(p))
            => Cardinality(underHeading(content[monthOf(inv[p].note)],
                                        inv[p].reviewHeading, linkLine(p))) = 1

\* C2: the computation is idempotent: an operation that reads the text
\* another one computed, with the same heading, prefix and link, computes
\* that text again.
C2_Idempotent ==
    \A p, q \in Proc :
        (/\ ReadCompleted(p)
         /\ ReadCompleted(q)
         /\ inv[q].reviewHeading = inv[p].reviewHeading
         /\ inv[q].reviewLinePrefix = inv[p].reviewLinePrefix
         /\ inv[q].noteLink = inv[p].noteLink
         /\ inv[q].previousNoteText = computedFromOwnRead(p))
            => computedFromOwnRead(q) = inv[q].previousNoteText

\* C3: when the text read holds the heading and not the link line, the new
\* text is the text with the first occurrence of the heading replaced by
\* heading + "\n" + line, every other character as it was.
C3_FirstHeadingReplaced ==
    \A p \in Proc :
        (/\ ReadCompleted(p)
         /\ includes(inv[p].previousNoteText, inv[p].reviewHeading)
         /\ ~includes(inv[p].previousNoteText, linkLine(p)))
            => /\ count(p, "modify") = 1
               /\ inv[p].newNoteText =
                     withLineAfterFirst(inv[p].previousNoteText,
                                        inv[p].reviewHeading, linkLine(p))

\* C4: when the text read does not hold the heading, the new text is
\* exactly text + "\n" + heading + "\n" + line, also for the empty text and
\* for a text that ends in a newline.
C4_SectionAppended ==
    \A p \in Proc :
        (ReadCompleted(p)
         /\ ~includes(inv[p].previousNoteText, inv[p].reviewHeading))
            => /\ count(p, "modify") = 1
               /\ inv[p].newNoteText =
                     inv[p].previousNoteText \o <<NL>> \o inv[p].reviewHeading
                         \o <<NL>> \o linkLine(p)

\* C4 witness: a section was appended to a text that ended in a newline,
\* and the note holds the new text.
C4_Witness ==
    \E p \in Proc :
        /\ inv[p].pc = "done"
        /\ count(p, "modify") = 1
        /\ ~includes(inv[p].previousNoteText, inv[p].reviewHeading)
        /\ inv[p].previousNoteText # <<>>
        /\ inv[p].previousNoteText[Len(inv[p].previousNoteText)] = NL
        /\ Len(inv[p].newNoteText) =
              Len(inv[p].previousNoteText) + Len(inv[p].reviewHeading)
                  + Len(linkLine(p)) + 2
        /\ content[monthOf(inv[p].note)] = inv[p].newNoteText

\* C5 as stated: a link line that occurs anywhere in the text read stops
\* the insertion: the operation writes nothing.
C5_LinkAnywhereUnchanged ==
    \A p \in Proc :
        (ReadCompleted(p) /\ includes(inv[p].previousNoteText, linkLine(p)))
            => count(p, "modify") = 0

\* C5 amended: a link line that occurs anywhere in a text that holds the
\* heading stops the insertion: the operation writes nothing.
C5_LinkAnywhereWithHeadingUnchanged ==
    \A p \in Proc :
        (/\ ReadCompleted(p)
         /\ includes(inv[p].previousNoteText, linkLine(p))
         /\ includes(inv[p].previousNoteText, inv[p].reviewHeading))
            => count(p, "modify") = 0

\* C5 witness: the link line stood before the heading, outside the section,
\* not on a line of its own, and the operation left the text as it was.
C5_Witness ==
    \E p \in Proc :
        /\ inv[p].pc = "done"
        /\ count(p, "read") = 1
        /\ count(p, "modify") = 0
        /\ includes(inv[p].previousNoteText, inv[p].reviewHeading)
        /\ occurrences(inv[p].previousNoteText, linkLine(p)) # {}
        /\ underHeading(inv[p].previousNoteText, inv[p].reviewHeading,
                        linkLine(p)) = {}
        /\ linkLine(p) \notin lines(inv[p].previousNoteText)
        /\ content[monthOf(inv[p].note)] = inv[p].previousNoteText

\* --------------------------------------------------- claims on the commands
\* C6: when the collection holds a note for the month, the resolver returns
\* that note and never calls the creation; when it holds none, the resolver
\* calls the creation exactly once and returns the note created.
C6_FindOrCreate ==
    \A p \in Proc :
        /\ inv[p].lookup = "found" =>
              /\ inv[p].note = Months[inv[p].date]
              /\ count(p, "createMonthlyNote") = 0
              /\ inv[p].creation = "none"
        /\ (inv[p].lookup = "absent" /\ Resolved(p)) =>
              /\ count(p, "createMonthlyNote") = 1
              /\ inv[p].creation = "created" =>
                    (inv[p].note = Months[inv[p].date] /\ inv[p].date \in notes)

\* C6 witness: one invocation created the month's note and has it, another
\* one found that note in the collection and has it.
C6_Witness ==
    \E p, q \in Proc :
        /\ inv[p].lookup = "absent" /\ inv[p].creation = "created"
        /\ inv[p].pc = "done" /\ inv[p].note # NoNote
        /\ inv[q].lookup = "found" /\ Resolved(q)
        /\ inv[q].note = inv[p].note

\* C7: when getting the collection fails, the resolver shows its Notice and
\* returns no note, looks nothing up and creates nothing, and the command
\* neither reads, writes nor opens a note.
C7_CollectionUnavailable ==
    \A p \in Proc :
        inv[p].lookup = "threw" =>
            /\ notices[p] = <<"folder">>
            /\ inv[p].note = NoNote
            /\ count(p, "getMonthlyNote") = 0
            /\ count(p, "createMonthlyNote") = 0
            /\ touched(p) = {}
            /\ inv[p].pc \in {"returned", "done"}

\* C7 witness: an add-link and an open invocation both ended after the
\* collection could not be got.
C7_Witness ==
    \E p, q \in Proc :
        /\ inv[p].lookup = "threw" /\ inv[p].command = "add" /\ inv[p].pc = "done"
        /\ inv[q].lookup = "threw" /\ inv[q].command = "open" /\ inv[q].pc = "done"

\* C8: when the creation of the monthly note fails, the invocation ends: the
\* user is told, the creation is not tried again, and no note is read,
\* written or opened afterwards.
C8_CreationFailed ==
    \A p \in Proc :
        inv[p].creation = "threw" =>
            /\ notices[p] = <<"create">>
            /\ count(p, "createMonthlyNote") = 1
            /\ inv[p].note = NoNote
            /\ touched(p) = {}
            /\ inv[p].pc \in {"returned", "done"}

\* C8 witness: an add-link and an open invocation both ended after the
\* creation failed.
C8_Witness ==
    \E p, q \in Proc :
        /\ inv[p].creation = "threw" /\ inv[p].command = "add" /\ inv[p].pc = "done"
        /\ inv[q].creation = "threw" /\ inv[q].command = "open" /\ inv[q].pc = "done"

\* C9: an invocation of either command that starts while the Periodic Notes
\* plugin is absent shows the Notice and ends without touching a note: no
\* collection lookup, no creation, no read, no write, no open.
C9_MissingPrerequisite ==
    \A p \in Proc :
        (inv[p].command # "none" /\ ~inv[p].capability) =>
            /\ notices[p] = <<"plugin">>
            /\ calls[p] = <<"getPlugin">>
            /\ inv[p].pc = "done"

\* C10: nothing guards overlapping invocations: a write that settles makes
\* the note's text the text its invocation computed from its own read alone,
\* whatever was written to the note since that read.
C10_LastWriteWins ==
    [][\A p \in Proc :
          ModifySettles(p) =>
              content'[monthOf(inv[p].note)] = computedFromOwnRead(p)]_vars

\* C10 witness: two add-link invocations for the same note, both done, both
\* having written, read the same text; the note's text is the one written
\* last, and the link the other one inserted is not in it.
C10_Witness ==
    \E p, q \in Proc :
        /\ p # q
        /\ inv[p].pc = "done" /\ inv[q].pc = "done"
        /\ count(p, "modify") = 1 /\ count(q, "modify") = 1
        /\ inv[p].note = inv[q].note
        /\ inv[p].previousNoteText = inv[q].previousNoteText
        /\ content[monthOf(inv[p].note)] = inv[p].newNoteText
        /\ includes(inv[q].newNoteText,
                    link(inv[q].reviewLinePrefix, inv[q].noteLink))
        /\ ~includes(content[monthOf(inv[p].note)],
                     link(inv[q].reviewLinePrefix, inv[q].noteLink))

\* C13: the month is taken from the clock once per invocation: the month
\* given to the creation on a lookup miss is the month the lookup was made
\* for, also when the clock has passed into the next month meanwhile.
C13_PeriodComputedOnce ==
    \A p \in Proc :
        inv[p].creation # "none" =>
            /\ inv[p].createPeriod = inv[p].lookupPeriod
            /\ inv[p].creation = "created" =>
                  inv[p].note = Months[inv[p].lookupPeriod]

\* C13 witness: the clock passed into the next month after the lookup of an
\* invocation whose creation, for the month of the lookup, is under way.
C13_Witness ==
    \E p \in Proc :
        /\ inv[p].pc = "creating"
        /\ inv[p].lookupPeriod = 1
        /\ inv[p].createPeriod = 1
        /\ now = 2

\* C11: an invocation reads a note's text at most once and writes it at most
\* once, and it calls for the write only when its read has settled.
C11_OneReadOneWrite ==
    \A p \in Proc :
        /\ count(p, "read") <= 1
        /\ count(p, "modify") <= 1
        /\ count(p, "modify") = 1 =>
              /\ ReadCompleted(p)
              /\ first(p, "read") < first(p, "modify")
              /\ inv[p].command = "add"

\* C11 witness: an add-link invocation is over, having read and then
\* written the note's text.
C11_Witness ==
    \E p \in Proc :
        /\ inv[p].pc = "done"
        /\ calls[p] = <<"getPlugin", "getAllMonthlyNotes", "getMonthlyNote",
                        "read", "modify">>
        /\ content[monthOf(inv[p].note)] = inv[p].newNoteText

\* C12: the resolver changes the vault only by creating the note of a month
\* that has none; no step but the write of an add-link invocation changes
\* the text of a note that is there, and an open invocation calls for no
\* write of a note's text.
C12_ResolverOnlyCreates ==
    [][/\ (\E m \in notes : content'[m] # content[m]) =>
             \E p \in Proc : inv[p].command = "add" /\ ModifySettles(p)
       /\ notes' # notes =>
             \E p \in Proc :
                 /\ CreateMonthlyNoteSettles(p)
                 /\ inv[p].lookup = "absent"
                 /\ notes' = notes \cup {inv[p].createPeriod}
                 /\ inv[p].createPeriod \notin notes
       /\ \A p \in Proc :
             inv'[p].command = "open" =>
                 \A i \in 1..Len(calls'[p]) : calls'[p][i] \notin {"read", "modify"}
      ]_vars

\* C12 witness: an open invocation is over, having created and opened the
\* note of its month, and the text of another note is there as it was.
C12_Witness ==
    \E p \in Proc :
        /\ inv[p].command = "open"
        /\ inv[p].pc = "done"
        /\ calls[p] = <<"getAllMonthlyNotes", "getMonthlyNote",
                        "createMonthlyNote", "openFile">>
        /\ inv[p].note = Months[2]
        /\ 1 \in notes
        /\ content[1] = DefaultHeading \o <<NL, "a">>

\* How often the invocation in slot p has shown the Notice n.
shown(p, n) == Cardinality({i \in 1..Len(notices[p]) : notices[p][i] = n})

\* C14: an add-link invocation has shown the success Notice once when its
\* read has settled, whether or not it called for a write, and never
\* otherwise; an invocation that ended on a failure has not shown it.
C14_SuccessNoticeOnce ==
    \A p \in Proc :
        /\ shown(p, "added") = IF ReadCompleted(p) THEN 1 ELSE 0
        /\ (\/ inv[p].lookup = "threw"
            \/ inv[p].creation = "threw"
            \/ ~inv[p].capability /\ inv[p].command = "add")
              => shown(p, "added") = 0

\* C14 witness: an add-link invocation is over that found the link line in
\* the text, called for no write and has shown the success Notice.
C14_Witness ==
    \E p \in Proc :
        /\ inv[p].command = "add"
        /\ inv[p].pc = "done"
        /\ count(p, "read") = 1
        /\ count(p, "modify") = 0
        /\ includes(inv[p].previousNoteText,
                    link(inv[p].reviewLinePrefix, inv[p].noteLink))
        /\ notices[p] = <<"added">>

\* C16: a checkCallback with checking = true returns whether there is an
\* active leaf and does nothing else: no call to the host, no Notice, no
\* invocation; an invocation starts only with checking = false and an
\* active leaf. (Every step either does so or is no checkCallback.)
C16_AvailabilityCheck ==
    [][\A checking \in BOOLEAN :
          \/ /\ returnValue' = (activeLeaf # NoLeaf)
             /\ (checking \/ activeLeaf = NoLeaf) =>
                   UNCHANGED <<started, hostVars, inv, calls, notices>>
             /\ started' # started => (~checking /\ activeLeaf # NoLeaf)
          \/ ~(AddCheckCallback(checking) \/ OpenCheckCallback(checking))
      ]_vars

\* C16 witness: a checkCallback has returned true and no invocation has
\* started.
C16_Witness ==
    /\ returnValue = TRUE
    /\ activeLeaf # NoLeaf
    /\ started = 0
    /\ \A p \in Proc : inv[p] = Idle /\ calls[p] = <<>> /\ notices[p] = <<>>

\* C15: from the default settings on, the configured heading is never
\* empty (the empty value of the field stores "## Review"), so no add-link
\* invocation takes an empty heading into its computation; a change of the
\* prefix field leaves the heading as it is, and a change of the heading
\* field leaves the prefix as it is.
C15_HeadingNeverEmpty ==
    /\ [](/\ settings.reviewSectionHeading # <<>>
          /\ \A p \in Proc :
                count(p, "read") = 1 => inv[p].reviewHeading # <<>>)
    /\ [][\A value \in HeadingInputs \cup PrefixInputs :
            /\ HeadingOnChange(value) =>
                  /\ settings'.reviewSectionHeading =
                        IF value = <<>> THEN ReviewHeading ELSE value
                  /\ settings'.linePrefix = settings.linePrefix
            /\ PrefixOnChange(value) =>
                  /\ settings'.linePrefix = value
                  /\ settings'.reviewSectionHeading = settings.reviewSectionHeading
        ]_vars

\* C15 witness: the heading field was emptied and the prefix field too, and
\* an add-link invocation has written a note with "## Review" as heading
\* and the empty prefix.
C15_Witness ==
    /\ settings.reviewSectionHeading = ReviewHeading
    /\ settings.linePrefix = <<>>
    /\ \E p \in Proc :
          /\ inv[p].pc = "done"
          /\ count(p, "modify") = 1
          /\ inv[p].reviewHeading = ReviewHeading
          /\ inv[p].reviewLinePrefix = <<>>
          /\ includes(content[monthOf(inv[p].note)], ReviewHeading)
====
